---- MODULE Spec2Model ----
(***************************************************************************)
(* Token-usage HTTP service (src/main.go): the start-up connection retry   *)
(* loop of main, the gorilla/mux route table, and the four handlers over   *)
(* the token_usage table.                                                  *)
(*                                                                         *)
(* Time is counted in whole days; day 0 is 2024-01-01 (a Monday) and every *)
(* date of the model lies in 2024.  The server clock is taken to be UTC,   *)
(* as in the repository's container image.  A text (a path segment or the  *)
(* "date" member of a JSON body) is a record: its layout says how it is    *)
(* written ("plain", "ymd" for 2006-01-02, "rfc3339" for                   *)
(* 2006-01-02T00:00:00Z) and mon/dom are the month and day it spells.      *)
(***************************************************************************)
EXTENDS Integers, Sequences, FiniteSets

VARIABLES
    pc,           \* position of main: "start", "connect", "setup", "serving", "fatal"
    dbUrlSet,     \* whether DATABASE_URL is set in the environment
    i,            \* loop counter of the retry loop
    retryDelay,   \* retryDelay, in seconds
    err,          \* err of main: "nil", "open", "ping", "exec"
    db,           \* the global handle: "nil", "open", "closed"
    attempts,     \* outcome of each iteration of the retry loop so far
    slept,        \* the arguments of time.Sleep so far, in seconds
    tableExists,  \* the token_usage table has been created
    store,        \* rows of token_usage
    nextId,       \* next value of the SERIAL column id
    now,          \* the day time.Now() falls on
    wk,           \* per request goroutine: where it is inside a handler
    log           \* the completed exchanges, oldest first

vars == <<pc, dbUrlSet, i, retryDelay, err, db, attempts, slept, tableExists,
          store, nextId, now, wk, log>>

startupVars == <<pc, dbUrlSet, i, retryDelay, err, db, attempts, slept, tableExists>>

----------------------------------------------------------------------------
(* Bounds of the model *)

NumWorkers == 2
MaxRequests == 3
MaxTokens == 1
NumDays == 2
FirstDay == 32
DayStep == 3

Workers == 1..NumWorkers
Tokens == 0..MaxTokens
Days == {FirstDay + k * DayStep : k \in 0..(NumDays - 1)}
Models == {"gpt-4", "gpt-3.5"}

----------------------------------------------------------------------------
(* Program constants *)

maxRetries == 5
baseDelay == 2

StatusOK == 200
StatusCreated == 201
StatusBadRequest == 400
StatusNotFound == 404
StatusInternalServerError == 500

MsgInvalidPayload == "Invalid request payload"
MsgQueryError == "Database query error"
MsgInsertFailed == "Failed to insert token usage"
MsgUpdateFailed == "Failed to update token usage"
MsgRecorded == "Token usage recorded successfully"
MsgUpdated == "Token usage updated successfully"
MsgInvalidDate == "Invalid date format"
MsgNoDataDateModel == "No token usage data found for this date and model"
MsgInvalidPeriod == "Invalid period. Use 'week', 'month' or 'lifetime'"
MsgNoDataModel == "No token usage data found for this model"

----------------------------------------------------------------------------
(* Calendar: what time.Time's Weekday, Day and AddDate compute *)

DaysIn == <<31, 29, 31, 30, 31, 30, 31, 31, 30, 31, 30, 31>>

RECURSIVE DaysBefore(_)
DaysBefore(mon) == IF mon <= 1 THEN 0 ELSE DaysIn[mon - 1] + DaysBefore(mon - 1)

\* the day number of a valid month and day of month
DayNumber(mon, dom) == DaysBefore(mon) + dom - 1

RECURSIVE MonthFrom(_, _)
MonthFrom(d, mon) == IF d < DaysIn[mon] THEN mon ELSE MonthFrom(d - DaysIn[mon], mon + 1)

Month(d) == MonthFrom(d, 1)

\* time.Time.Day: the day of the month, 1..31
Day(d) == d - DaysBefore(Month(d)) + 1

\* time.Time.Weekday: Sunday = 0 .. Saturday = 6
Weekday(d) == (d + 1) % 7

\* t.AddDate(0, 0, n)
AddDays(d, n) == d + n

----------------------------------------------------------------------------
(* Texts and their parsing *)

Plain(s) == [layout |-> "plain", text |-> s, mon |-> 0, dom |-> 0]
DateText(lay, mon, dom) == [layout |-> lay, text |-> "", mon |-> mon, dom |-> dom]

\* the text that spells day d in the given layout
FormatDay(lay, d) == DateText(lay, Month(d), Day(d))

\* e.g. "2023-13-40": the layout is right, the month and day are out of range
BadDateText == DateText("ymd", 13, 40)

\* time.Parse(layout, s): the day, or an error
ParseTime(lay, s) ==
    IF /\ s.layout = lay
       /\ s.mon \in 1..12
       /\ s.dom >= 1
       /\ s.dom <= DaysIn[s.mon]
    THEN [err |-> FALSE, t |-> DayNumber(s.mon, s.dom)]
    ELSE [err |-> TRUE, t |-> 0]

\* the zero TokenUsage of a failed decode
NoUsage == [err |-> TRUE, Date |-> 0, Model |-> "", TotalTokens |-> 0]

\* json.Decoder.Decode into TokenUsage: Date is a time.Time, whose UnmarshalJSON
\* parses RFC 3339
DecodeUsage(body) ==
    IF ~body.wellFormed
    THEN NoUsage
    ELSE LET p == ParseTime("rfc3339", body.date)
         IN  IF p.err
             THEN NoUsage
             ELSE [err |-> FALSE, Date |-> p.t, Model |-> body.model,
                   TotalTokens |-> body.total_tokens]

----------------------------------------------------------------------------
(* Requests *)

NoBody == [wellFormed |-> FALSE, date |-> Plain(""), model |-> "", total_tokens |-> 0]
Root == <<Plain("token_usage")>>

PostRequests ==
    {[method |-> "POST", path |-> Root, body |-> NoBody]}
    \cup {[method |-> "POST", path |-> Root,
           body |-> [wellFormed |-> TRUE, date |-> FormatDay(lay, d),
                     model |-> m, total_tokens |-> n]] :
            lay \in {"rfc3339", "ymd"}, d \in Days, m \in Models, n \in Tokens}

ListRequests == {[method |-> "GET", path |-> Root, body |-> NoBody]}

\* GET /token_usage/{date}/{model}
LookupRequests ==
    {[method |-> "GET", path |-> Root \o <<dt, Plain(m)>>, body |-> NoBody] :
        dt \in {FormatDay("ymd", d) : d \in Days} \cup {BadDateText}, m \in Models}

Periods == {"week", "month", "lifetime"}

\* GET /token_usage/{model}/{period}
PeriodRequests ==
    {[method |-> "GET", path |-> Root \o <<Plain(m), Plain(p)>>, body |-> NoBody] :
        m \in Models, p \in Periods \cup {"year"}}

Requests == PostRequests \cup ListRequests \cup LookupRequests \cup PeriodRequests

----------------------------------------------------------------------------
(* The route table, in registration order.  A pattern element is a literal *)
(* or a variable; a variable matches any one non-empty segment.            *)

Lit(s) == [var |-> FALSE, name |-> s]
Var(s) == [var |-> TRUE, name |-> s]

Routes == <<
    [method |-> "POST", pattern |-> <<Lit("token_usage")>>,
     handler |-> "recordTokenUsage"],
    [method |-> "GET", pattern |-> <<Lit("token_usage")>>,
     handler |-> "getTokenUsageAll"],
    [method |-> "GET", pattern |-> <<Lit("token_usage"), Var("date"), Var("model")>>,
     handler |-> "getTokenUsageByDateAndModel"],
    [method |-> "GET", pattern |-> <<Lit("token_usage"), Var("model"), Var("period")>>,
     handler |-> "getTokenUsageByPeriod"] >>

SegMatches(el, seg) ==
    IF el.var THEN seg # Plain("") ELSE seg = Plain(el.name)

RouteMatches(r, req) ==
    /\ Routes[r].method = req.method
    /\ Len(Routes[r].pattern) = Len(req.path)
    /\ \A k \in 1..Len(req.path) : SegMatches(Routes[r].pattern[k], req.path[k])

\* mux.Router.Match: the first registered route that matches; 0 when none does
RouterMatch(req) ==
    IF \E r \in 1..Len(Routes) : RouteMatches(r, req)
    THEN CHOOSE r \in 1..Len(Routes) :
            /\ RouteMatches(r, req)
            /\ \A q \in 1..(r - 1) : ~RouteMatches(q, req)
    ELSE 0

\* mux.Vars(r)[name] under route r
MuxVar(r, req, name) ==
    LET pat == Routes[r].pattern
    IN  IF \E k \in 1..Len(pat) : pat[k] = Var(name)
        THEN req.path[CHOOSE k \in 1..Len(pat) : pat[k] = Var(name)]
        ELSE Plain("")

----------------------------------------------------------------------------
(* The token_usage table *)

Row(id, date, model, n) == [id |-> id, date |-> date, model |-> model, total_tokens |-> n]

\* WHERE date = $1 AND model = $2
RowsFor(s, date, model) == {r \in s : r.date = date /\ r.model = model}

\* an INSERT under a unique constraint on (date, model): a second row for the
\* pair is not stored
InsertRowUnique(s, id, usage) ==
    IF \E r \in s : r.date = usage.Date /\ r.model = usage.Model
    THEN s
    ELSE s \cup {Row(id, usage.Date, usage.Model, usage.TotalTokens)}

\* INSERT INTO token_usage (date, model, total_tokens): the table has no
\* constraint besides the primary key id
InsertRow(s, id, usage) == s \cup {Row(id, usage.Date, usage.Model, usage.TotalTokens)}

\* an UPDATE that accumulates: SET total_tokens = total_tokens + $1
UpdateRowAdd(s, id, n) ==
    {IF r.id = id THEN [r EXCEPT !.total_tokens = r.total_tokens + n] ELSE r : r \in s}

\* UPDATE token_usage SET total_tokens = $1 WHERE id = $2
UpdateRow(s, id, n) ==
    {IF r.id = id THEN [r EXCEPT !.total_tokens = n] ELSE r : r \in s}

RECURSIVE SumTokens(_)
SumTokens(rows) ==
    IF rows = {} THEN 0
    ELSE LET r == CHOOSE x \in rows : TRUE
         IN  r.total_tokens + SumTokens(rows \ {r})

\* a period query that lost its model filter
PeriodRowsAnyModel(s, model, bounded, startDate) ==
    {r \in s : bounded => r.date >= startDate}

\* the rows a period query reads: WHERE model = $1 [AND date >= $2]
PeriodRows(s, model, bounded, startDate) ==
    {r \in s : r.model = model /\ (bounded => r.date >= startDate)}

\* SUM(total_tokens): NULL over no rows
SqlSum(rows) ==
    IF rows = {} THEN [null |-> TRUE, v |-> 0] ELSE [null |-> FALSE, v |-> SumTokens(rows)]

\* COALESCE(x, 0)
Coalesce(x) == IF x.null THEN [null |-> FALSE, v |-> 0] ELSE x

----------------------------------------------------------------------------
(* main: environment, retry loop, table creation *)

\* a goroutine outside any handler
Idle == [pc |-> "idle", req |-> [method |-> "", path |-> <<>>, body |-> NoBody],
         usage |-> NoUsage, existingID |-> 0, pre |-> {}]

\* a delay that grows by the base delay instead of doubling
NextDelayLinear(d) == d + baseDelay

\* retryDelay *= 2
NextDelay(d) == d * 2

Init ==
    /\ pc = "start"
    /\ dbUrlSet \in BOOLEAN
    /\ i = 0
    /\ retryDelay = 0
    /\ err = "nil"
    /\ db = "nil"
    /\ attempts = <<>>
    /\ slept = <<>>
    /\ tableExists = FALSE
    /\ store = {}
    /\ nextId = 1
    /\ now = FirstDay
    /\ wk = [w \in Workers |-> Idle]
    /\ log = <<>>

\* lines 29-40
LoadEnv ==
    /\ pc = "start"
    /\ IF dbUrlSet
       THEN /\ pc' = "connect"
            /\ retryDelay' = baseDelay
       ELSE /\ pc' = "fatal"
            /\ UNCHANGED retryDelay
    /\ UNCHANGED <<dbUrlSet, i, err, db, attempts, slept, tableExists,
                   store, nextId, now, wk, log>>

\* one iteration of the retry loop, lines 41-59; the loop is left on success
\* (break) and when i reaches maxRetries
Attempt ==
    /\ pc = "connect"
    /\ i < maxRetries
    /\ \E outcome \in {"open", "ping", "nil"} :
         /\ err' = outcome
         /\ attempts' = Append(attempts, outcome)
         /\ IF outcome = "nil"
            THEN /\ db' = "open"
                 /\ pc' = "setup"
                 /\ UNCHANGED <<i, retryDelay, slept>>
            ELSE /\ db' = (IF outcome = "open" THEN "nil" ELSE "closed")
                 /\ slept' = Append(slept, retryDelay)
                 /\ retryDelay' = NextDelay(retryDelay)
                 /\ i' = i + 1
                 /\ pc' = (IF i + 1 < maxRetries THEN "connect" ELSE "setup")
    /\ UNCHANGED <<dbUrlSet, tableExists, store, nextId, now, wk, log>>

\* the check after the loop
ConnectFailed == err # "nil"

\* lines 60-88: the check after the loop, CREATE TABLE IF NOT EXISTS, the routes
Setup ==
    /\ pc = "setup"
    /\ IF ConnectFailed
       THEN /\ pc' = "fatal"
            /\ UNCHANGED <<err, tableExists>>
       ELSE \E ok \in BOOLEAN :
              IF ok
              THEN /\ tableExists' = TRUE
                   /\ pc' = "serving"
                   /\ UNCHANGED err
              ELSE /\ err' = "exec"
                   /\ pc' = "fatal"
                   /\ UNCHANGED tableExists
    /\ UNCHANGED <<dbUrlSet, i, retryDelay, db, attempts, slept,
                   store, nextId, now, wk, log>>

\* main has reached http.ListenAndServe (line 88) after a first attempt that
\* succeeded; the day the requests arrive on is any day of the model
Listening ==
    /\ pc = "serving"
    /\ dbUrlSet = TRUE
    /\ i = 0
    /\ retryDelay = baseDelay
    /\ err = "nil"
    /\ db = "open"
    /\ attempts = <<"nil">>
    /\ slept = <<>>
    /\ tableExists = TRUE
    /\ store = {}
    /\ nextId = 1
    /\ now \in Days
    /\ wk = [w \in Workers |-> Idle]
    /\ log = <<>>

----------------------------------------------------------------------------
(* Responses *)


InFlight == Cardinality({w \in Workers : wk[w].pc # "idle"})

\* the server accepts a request on goroutine w
Accepts(w) ==
    /\ pc = "serving"
    /\ wk[w].pc = "idle"
    /\ Len(log) + InFlight < MaxRequests

Exchange(req, h, code, keys, msg, n, st, rows, calls, pre) ==
    [req |-> req, handler |-> h, code |-> code, keys |-> keys, message |-> msg,
     total_tokens |-> n, status |-> st, rows |-> rows, calls |-> calls,
     pre |-> pre, at |-> now]

\* respondJSON with a {"message": ...} body
JSONMessage(req, h, code, msg, calls, pre) ==
    Exchange(req, h, code, {"message"}, msg, 0, 0, {}, calls, pre)

\* respondError
ErrorResponse(req, h, code, msg, calls, pre) ==
    Exchange(req, h, code, {"message", "error"}, msg, 0, 0, {}, calls, pre)

Respond(w, e) ==
    /\ log' = Append(log, e)
    /\ wk' = [wk EXCEPT ![w] = Idle]

----------------------------------------------------------------------------
(* The handlers.  Each storage call may fail (a lost connection, a failed  *)
(* query); r is the route whose variables mux.Vars returns.                *)

\* recordTokenUsage, lines 92-105: decode the body, SELECT id.  QueryRow
\* scans the first row of the result, any of the matching rows
recordTokenUsage(w, req, r) ==
    LET h == "recordTokenUsage"
        usage == DecodeUsage(req.body)
    IN  /\ UNCHANGED <<store, nextId>>
        /\ IF usage.err
           THEN Respond(w, ErrorResponse(req, h, StatusBadRequest, MsgInvalidPayload,
                                         <<>>, store))
           ELSE \E ok \in BOOLEAN :
                  IF ~ok
                  THEN Respond(w, ErrorResponse(req, h, StatusInternalServerError,
                                                MsgQueryError, <<"SELECT">>, store))
                  ELSE LET found == RowsFor(store, usage.Date, usage.Model)
                       IN  /\ UNCHANGED log
                           /\ IF found = {}
                              THEN wk' = [wk EXCEPT ![w] =
                                            [pc |-> "insert", req |-> req, usage |-> usage,
                                             existingID |-> 0, pre |-> store]]
                              ELSE \E row \in found :
                                     wk' = [wk EXCEPT ![w] =
                                            [pc |-> "update", req |-> req, usage |-> usage,
                                             existingID |-> row.id, pre |-> store]]

\* recordTokenUsage, lines 106-113: sql.ErrNoRows, so INSERT
RecordInsert(w) ==
    LET h == "recordTokenUsage"
        req == wk[w].req
        usage == wk[w].usage
        calls == <<"SELECT", "INSERT">>
    IN  /\ wk[w].pc = "insert"
        /\ \E ok \in BOOLEAN :
             IF ok
             THEN /\ store' = InsertRow(store, nextId, usage)
                  /\ nextId' = nextId + 1
                  /\ Respond(w, JSONMessage(req, h, StatusCreated, MsgRecorded,
                                            calls, wk[w].pre))
             ELSE /\ UNCHANGED <<store, nextId>>
                  /\ Respond(w, ErrorResponse(req, h, StatusInternalServerError,
                                              MsgInsertFailed, calls, wk[w].pre))
        /\ UNCHANGED <<startupVars, now>>

\* recordTokenUsage, lines 114-122: a row was found, so UPDATE it by id
RecordUpdate(w) ==
    LET h == "recordTokenUsage"
        req == wk[w].req
        usage == wk[w].usage
        calls == <<"SELECT", "UPDATE">>
    IN  /\ wk[w].pc = "update"
        /\ \E ok \in BOOLEAN :
             IF ok
             THEN /\ store' = UpdateRow(store, wk[w].existingID, usage.TotalTokens)
                  /\ UNCHANGED nextId
                  /\ Respond(w, JSONMessage(req, h, StatusOK, MsgUpdated,
                                            calls, wk[w].pre))
             ELSE /\ UNCHANGED <<store, nextId>>
                  /\ Respond(w, ErrorResponse(req, h, StatusInternalServerError,
                                              MsgUpdateFailed, calls, wk[w].pre))
        /\ UNCHANGED <<startupVars, now>>

\* getTokenUsageAll, lines 125-147
getTokenUsageAll(w, req, r) ==
    LET h == "getTokenUsageAll"
    IN  /\ UNCHANGED <<store, nextId>>
        /\ \E ok \in BOOLEAN :
             IF ok
             THEN Respond(w, Exchange(req, h, StatusOK, {"rows"}, "", 0, 0, store,
                                      <<"SELECT">>, store))
             ELSE Respond(w, ErrorResponse(req, h, StatusInternalServerError,
                                           MsgQueryError, <<"SELECT">>, store))

\* getTokenUsageByDateAndModel, lines 149-170
getTokenUsageByDateAndModel(w, req, r) ==
    LET h == "getTokenUsageByDateAndModel"
        dateStr == MuxVar(r, req, "date")
        model == MuxVar(r, req, "model").text
        date == ParseTime("ymd", dateStr)
    IN  /\ UNCHANGED <<store, nextId>>
        /\ IF date.err
           THEN Respond(w, ErrorResponse(req, h, StatusBadRequest, MsgInvalidDate,
                                         <<>>, store))
           ELSE \E ok \in BOOLEAN :
                  IF ~ok
                  THEN Respond(w, ErrorResponse(req, h, StatusInternalServerError,
                                                MsgQueryError, <<"SELECT">>, store))
                  ELSE LET found == RowsFor(store, date.t, model)
                       IN  IF found = {}
                           THEN Respond(w, Exchange(req, h, StatusOK, {"message", "status"},
                                                    MsgNoDataDateModel, 0, 0, {},
                                                    <<"SELECT">>, store))
                           ELSE \E row \in found :
                                  Respond(w, Exchange(req, h, StatusOK,
                                                      {"total_tokens", "status"}, "",
                                                      row.total_tokens, 1, {},
                                                      <<"SELECT">>, store))

\* today := time.Now().Truncate(24 * time.Hour)
Today == now

\* the switch on period, lines 178-188; bounded is !startDate.IsZero()
StartDate(period, today) ==
    CASE period = "week" ->
            [ok |-> TRUE, bounded |-> TRUE, t |-> AddDays(today, -Weekday(today))]
      [] period = "month" ->
            [ok |-> TRUE, bounded |-> TRUE, t |-> AddDays(today, -Day(today) + 1)]
      [] period = "lifetime" ->
            [ok |-> TRUE, bounded |-> FALSE, t |-> 0]
      [] OTHER ->
            [ok |-> FALSE, bounded |-> FALSE, t |-> 0]

\* SELECT COALESCE(SUM(total_tokens), 0) ... scanned into an int
QuerySum(s, model, start) ==
    Coalesce(SqlSum(PeriodRows(s, model, start.bounded, start.t)))

\* a test that tells "no data" only from a negative sum
IsNoDataNegative(totalTokens) == totalTokens < 0

\* the test at line 200
IsNoData(totalTokens) == totalTokens = 0

\* getTokenUsageByPeriod, lines 172-205
getTokenUsageByPeriod(w, req, r) ==
    LET h == "getTokenUsageByPeriod"
        model == MuxVar(r, req, "model").text
        period == MuxVar(r, req, "period").text
        start == StartDate(period, Today)
    IN  /\ UNCHANGED <<store, nextId>>
        /\ IF ~start.ok
           THEN Respond(w, JSONMessage(req, h, StatusBadRequest, MsgInvalidPeriod,
                                       <<>>, store))
           ELSE \E ok \in BOOLEAN :
                  LET sum == QuerySum(store, model, start)
                  IN  IF ~ok \/ sum.null
                      THEN Respond(w, ErrorResponse(req, h, StatusInternalServerError,
                                                    MsgQueryError, <<"SELECT">>, store))
                      ELSE IF IsNoData(sum.v)
                      THEN Respond(w, JSONMessage(req, h, StatusNotFound, MsgNoDataModel,
                                                  <<"SELECT">>, store))
                      ELSE Respond(w, Exchange(req, h, StatusOK, {"total_tokens"}, "",
                                               sum.v, 0, {}, <<"SELECT">>, store))

\* the handler registered on route r runs on goroutine w
Handle(w, req, r) ==
    /\ UNCHANGED <<startupVars, now>>
    /\ CASE Routes[r].handler = "recordTokenUsage" -> recordTokenUsage(w, req, r)
         [] Routes[r].handler = "getTokenUsageAll" -> getTokenUsageAll(w, req, r)
         [] Routes[r].handler = "getTokenUsageByDateAndModel" ->
                getTokenUsageByDateAndModel(w, req, r)
         [] Routes[r].handler = "getTokenUsageByPeriod" -> getTokenUsageByPeriod(w, req, r)

\* http.ListenAndServe with the router: a request arrives and is dispatched
Serve(w) ==
    /\ Accepts(w)
    /\ \E req \in Requests :
         /\ RouterMatch(req) # 0
         /\ Handle(w, req, RouterMatch(req))

\* a handler is invoked directly, with the variables of its own route
Invoke(w) ==
    /\ Accepts(w)
    /\ \E r \in 1..Len(Routes), req \in Requests :
         /\ RouteMatches(r, req)
         /\ Handle(w, req, r)

----------------------------------------------------------------------------
(* Specifications *)

\* main, from the start of the process to ListenAndServe or log.Fatal
Startup == LoadEnv \/ Attempt \/ Setup

SpecBoot == Init /\ [][Startup]_vars

\* the service as deployed: goroutines serve requests concurrently
Next == \E w \in Workers : Serve(w) \/ RecordInsert(w) \/ RecordUpdate(w)

Spec == Listening /\ [][Next]_vars

\* the service with one request in progress at a time
NextSeq == \E w \in {1} : Serve(w) \/ RecordInsert(w) \/ RecordUpdate(w)

SpecSeq == Listening /\ [][NextSeq]_vars

\* the handlers as operations, each invoked on its own route's variables
NextOps == \E w \in Workers : Invoke(w) \/ RecordInsert(w) \/ RecordUpdate(w)

SpecOps == Listening /\ [][NextOps]_vars

----------------------------------------------------------------------------
(* Properties of the exchanges *)

Positions == 1..Len(log)

IsRecord(e) == e.handler = "recordTokenUsage" /\ e.code \in {StatusOK, StatusCreated}

\* the (date, model, total_tokens) a completed record exchange reported
Reported(e) == DecodeUsage(e.req.body)

SameKey(e, f) ==
    /\ Reported(e).Date = Reported(f).Date
    /\ Reported(e).Model = Reported(f).Model

\* a completed single lookup of the pair that record exchange e reported
IsLookupOf(e, f) ==
    /\ f.handler = "getTokenUsageByDateAndModel"
    /\ f.code = StatusOK
    /\ f.req \in LookupRequests
    /\ ParseTime("ymd", f.req.path[2]) = [err |-> FALSE, t |-> Reported(e).Date]
    /\ f.req.path[3].text = Reported(e).Model

IsPeriod(e) == e.handler = "getTokenUsageByPeriod"
ModelOf(e) == e.req.path[2].text
PeriodOf(e) == e.req.path[3].text

\* the most recent Sunday, and the first day of the month, of day d
WeekStart(d) == CHOOSE x \in (d - 6)..d : Weekday(x) = 0
MonthStart(d) == DayNumber(Month(d), 1)
WindowStart(period, d) == IF period = "week" THEN WeekStart(d) ELSE MonthStart(d)

\* C1: at most one token_usage row exists for each (date, model) pair, under
\* any interleaving of concurrent record requests.
C1_OneRowPerDateModel ==
    \A r1, r2 \in store : (r1.date = r2.date /\ r1.model = r2.model) => r1 = r2

\* C2: with one request at a time and an empty table at the start, when the
\* first two completed reports of a (date, model) pair are followed by a
\* completed lookup of that pair, the first answered 201, the second 200, and
\* the lookup returns the second report's total_tokens with status 1.
C2_LastWriteWins ==
    \A a, b, c \in Positions :
        ( /\ a < b /\ b < c
          /\ IsRecord(log[a]) /\ IsRecord(log[b]) /\ SameKey(log[a], log[b])
          /\ IsLookupOf(log[b], log[c])
          /\ \A k \in 1..(c - 1) :
                (IsRecord(log[k]) /\ SameKey(log[a], log[k])) => k \in {a, b} )
        => /\ log[a].code = StatusCreated /\ log[a].message = MsgRecorded
           /\ log[b].code = StatusOK /\ log[b].message = MsgUpdated
           /\ log[c].keys = {"total_tokens", "status"}
           /\ log[c].total_tokens = Reported(log[b]).TotalTokens
           /\ log[c].status = 1

C2_Witness ==
    \E a, b, c \in Positions :
        /\ a < b /\ b < c
        /\ IsRecord(log[a]) /\ IsRecord(log[b]) /\ SameKey(log[a], log[b])
        /\ IsLookupOf(log[b], log[c])
        /\ Reported(log[a]).TotalTokens # 0
        /\ log[c].total_tokens = Reported(log[b]).TotalTokens

\* C3: a GET /token_usage/{model}/{period} request is answered by the period
\* aggregate, never by the single lookup, and for a valid period whose rows sum
\* to a non-zero value the answer is 200 with that sum.
C3_PeriodRouteReachesAggregate ==
    \A k \in Positions :
        LET e == log[k]
            sum == QuerySum(e.pre, ModelOf(e), StartDate(PeriodOf(e), e.at)).v
        IN  e.req \in PeriodRequests =>
              /\ e.handler = "getTokenUsageByPeriod"
              /\ (PeriodOf(e) \in Periods /\ sum # 0 /\ e.code # StatusInternalServerError)
                    => (e.code = StatusOK /\ e.total_tokens = sum)

\* C4: the 'week' and 'month' aggregates sum exactly the model's rows dated
\* from the start of the window through today; rows before the window or after
\* today are left out.
C4_WindowEndsToday ==
    \A k \in Positions :
        LET e == log[k]
            win == {r \in e.pre : /\ r.model = ModelOf(e)
                                  /\ r.date >= WindowStart(PeriodOf(e), e.at)
                                  /\ r.date <= e.at}
        IN  (IsPeriod(e) /\ PeriodOf(e) \in {"week", "month"}
               /\ e.code \in {StatusOK, StatusNotFound})
            => IF SumTokens(win) = 0
               THEN e.code = StatusNotFound
               ELSE e.code = StatusOK /\ e.total_tokens = SumTokens(win)

\* C5: the 'lifetime' aggregate equals the sum of total_tokens over all rows of
\* the model, whatever their dates, and counts no row of another model.
C5_LifetimeSumsAllRowsOfModel ==
    \A k \in Positions :
        LET e == log[k]
            total == SumTokens({r \in e.pre : r.model = ModelOf(e)})
        IN  (IsPeriod(e) /\ PeriodOf(e) = "lifetime"
               /\ e.code # StatusInternalServerError)
            => /\ total # 0 => e.code = StatusOK
               /\ e.code = StatusOK => (e.keys = {"total_tokens"} /\ e.total_tokens = total)

C5_Witness ==
    \E k \in Positions :
        /\ IsPeriod(log[k]) /\ PeriodOf(log[k]) = "lifetime"
        /\ log[k].code = StatusOK
        /\ \E r \in log[k].pre : r.model # ModelOf(log[k]) /\ r.total_tokens # 0
        /\ \E r \in log[k].pre : r.model = ModelOf(log[k]) /\ r.date > log[k].at

\* C6: for a valid period the aggregate answers 404 exactly when the sum of
\* the matched rows is zero (no row matched, or the matched rows sum to zero)
\* and 200 with the sum otherwise.
C6_NotFoundIffZeroSum ==
    \A k \in Positions :
        LET e == log[k]
            matched == {r \in e.pre :
                          /\ r.model = ModelOf(e)
                          /\ (PeriodOf(e) # "lifetime"
                                => r.date >= WindowStart(PeriodOf(e), e.at))}
        IN  (IsPeriod(e) /\ PeriodOf(e) \in Periods
               /\ e.code # StatusInternalServerError)
            => /\ e.code \in {StatusOK, StatusNotFound}
               /\ e.code = StatusNotFound <=> SumTokens(matched) = 0
               /\ e.code = StatusNotFound => e.message = MsgNoDataModel
               /\ e.code = StatusOK => e.total_tokens = SumTokens(matched)

C6_Witness ==
    \E k \in Positions :
        /\ IsPeriod(log[k]) /\ PeriodOf(log[k]) \in {"week", "month"}
        /\ log[k].code = StatusNotFound
        /\ \E r \in log[k].pre :
              /\ r.model = ModelOf(log[k])
              /\ r.date >= WindowStart(PeriodOf(log[k]), log[k].at)

Failures == {k \in 1..Len(attempts) : attempts[k] # "nil"}

\* C7: start-up makes at most 5 attempts, sleeps 2, 4, 8, ... seconds after the
\* failed ones, serves only after an attempt that succeeded (holding the open
\* handle), and after 5 failed attempts ends in log.Fatal with no table
\* created and nothing served.
C7_BoundedRetryThenFatal ==
    /\ [](/\ Len(attempts) <= maxRetries
          /\ Len(slept) = Cardinality(Failures)
          /\ \A k \in 1..Len(slept) : slept[k] = baseDelay * 2^(k - 1)
          /\ (pc = "serving" \/ tableExists \/ log # <<>>)
                => /\ attempts # <<>>
                   /\ attempts[Len(attempts)] = "nil"
                   /\ db = "open"
          /\ Cardinality(Failures) = maxRetries
                => /\ pc \in {"setup", "fatal"}
                   /\ ~tableExists
                   /\ log = <<>>)
    /\ [][(pc = "setup" /\ Cardinality(Failures) = maxRetries) => pc' = "fatal"]_vars

C7_Witness ==
    /\ pc = "fatal"
    /\ Cardinality(Failures) = maxRetries
    /\ slept = <<2, 4, 8, 16, 32>>

\* a request that carries a client input error
IsClientError(req) ==
    \/ req \in PostRequests /\ ~req.body.wellFormed
    \/ req \in LookupRequests /\ ParseTime("ymd", req.path[2]).err
    \/ req \in PeriodRequests /\ req.path[3].text \notin Periods

\* C8: every request with a client input error is answered 400 without any
\* storage call, and for an invalid period the message lists the three valid
\* options.
C8_ClientErrorsAre400 ==
    \A k \in Positions :
        LET e == log[k]
        IN  IsClientError(e.req) =>
              /\ e.code = StatusBadRequest
              /\ e.calls = <<>>
              /\ e.req \in PeriodRequests => e.message = MsgInvalidPeriod

\* C9: a POST body whose date is written YYYY-MM-DD is not rejected with 400,
\* and on an empty table it is answered 201.
C9_CalendarDateAccepted ==
    \A k \in Positions :
        LET e == log[k]
        IN  ( /\ e.req \in PostRequests
              /\ e.req.body.wellFormed
              /\ ~ParseTime("ymd", e.req.body.date).err )
            => /\ e.code # StatusBadRequest
               /\ (e.pre = {} /\ e.code # StatusInternalServerError)
                     => e.code = StatusCreated

\* the lookup of record exchange e saw no row for its pair
SawNoRow(e) == RowsFor(e.pre, Reported(e).Date, Reported(e).Model) = {}

\* C10: a report whose lookup saw no row inserts and answers 201 whatever has
\* been written since, so two concurrent reports of one (date, model) pair
\* that both saw no row both answer 201 and leave two rows for the pair.
C10_RaceInsertsTwice ==
    /\ \A k \in Positions : (IsRecord(log[k]) /\ SawNoRow(log[k]))
                               => log[k].code = StatusCreated
    /\ \A a, b \in Positions :
          ( /\ a < b
            /\ IsRecord(log[a]) /\ IsRecord(log[b]) /\ SameKey(log[a], log[b])
            /\ SawNoRow(log[a]) /\ SawNoRow(log[b]) )
          => Cardinality(RowsFor(store, Reported(log[a]).Date,
                                 Reported(log[a]).Model)) >= 2

C10_Witness ==
    \E a, b \in Positions :
        /\ a < b
        /\ IsRecord(log[a]) /\ IsRecord(log[b]) /\ SameKey(log[a], log[b])
        /\ SawNoRow(log[a]) /\ SawNoRow(log[b])
        /\ log[a].code = StatusCreated /\ log[b].code = StatusCreated

====
